---- MODULE Spec2Model ----
(***************************************************************************)
(* Model of the main event loop of Hyperspeedcube (src/src/main.rs, run):  *)
(* the closure passed to event_loop.run is one handler invocation per      *)
(* platform event.  Each action below is one invocation of that closure    *)
(* for one kind of event.  Time is a discrete wall clock; a handler that   *)
(* reads Instant::now() several times sees non-decreasing values.          *)
(***************************************************************************)
EXTENDS Integers, Sequences, FiniteSets, TLC

(* ---------------------------- bounds ----------------------------------- *)
MaxTime == 4            \* the wall clock runs over 0..MaxTime
MaxLag == 4             \* greatest time that passes within one handler invocation
MaxDim == 2             \* window widths range over 1..MaxDim
MaxFrameDuration == 2   \* prefs.gfx.frame_duration() ranges over 1..MaxFrameDuration
OneSecond == 2          \* Duration::from_secs(1), in clock ticks

Sizes == (1..MaxDim) \X {1}
ScaleFactors == {1, 2}
FrameDurations == 1..MaxFrameDuration
Themes == {"Light", "Dark"}
DetectedModes == {"Light", "Dark", "Default"}

\* WindowEvent variants the closure distinguishes; "Other" stands for every
\* variant that falls in the `_` arms (CursorMoved, MouseInput, ...).
WindowEventKinds ==
    {"KeyPressed", "KeyReleased", "ModifiersChanged", "Resized",
     "ScaleFactorChanged", "ThemeChanged", "Other"}

\* Results of gfx.surface.get_current_texture(): Ok or a wgpu::SurfaceError.
AcquireOutcomes == {"Ok", "Outdated", "Lost", "OutOfMemory", "Timeout"}

VARIABLES
    clock,               \* wall-clock time (Instant::now())
    next_frame_time,     \* let mut next_frame_time
    control_flow,        \* *control_flow: "Poll" or "Exit"
    popup_open,          \* whether the key combo popup is open (gui state)
    gfx,                 \* render::GraphicsState: size, config, scale_factor
    style,               \* the egui context's global style
    fps,                 \* last_fps, frames_this_second, last_second
    prefs,               \* app.prefs: needs_save
    repaint_requested,   \* egui_ctx.request_repaint() pending for the next run
    redraw_requested,    \* window.request_redraw() pending
    puzzle_texture_id,   \* id returned by register_native_texture
    last,                \* what the most recent handler invocation saw and did
    ops,                 \* calls made by the most recent handler invocation, in order
    lastReported,        \* size carried by the last Resized/ScaleFactorChanged event
    acqLog               \* the last (up to three) surface acquisition attempts

vars == <<clock, next_frame_time, control_flow, popup_open, gfx, style, fps,
          prefs, repaint_requested, redraw_requested, puzzle_texture_id, last,
          ops, lastReported, acqLog>>

\* The environments the loop is explored in: the window events the host
\* sends, what gui::build may do to the key combo popup and to the
\* preferences, how far the clock runs and how long a handler may take.
DispatchEnv ==
    [kinds |-> WindowEventKinds, popups |-> BOOLEAN, dirty |-> BOOLEAN,
     horizon |-> 0, lags |-> {0}, outcomes |-> AcquireOutcomes,
     shifting |-> FALSE]

PacingEnv ==
    [kinds |-> {"Other"}, popups |-> {FALSE}, dirty |-> {FALSE},
     horizon |-> MaxTime, lags |-> 0..MaxLag, outcomes |-> AcquireOutcomes,
     shifting |-> FALSE]

\* The inputs under which the loop is left to run forever: acquisition
\* always succeeds, handlers take no time, and once the clock has reached the
\* horizon the passing of time is modelled by moving the stored instants back
\* (TickShift) instead of moving the clock forward.
LiveEnv ==
    [kinds |-> {"Other"}, popups |-> {FALSE}, dirty |-> {FALSE},
     horizon |-> MaxFrameDuration, lags |-> {0}, outcomes |-> {"Ok"},
     shifting |-> TRUE]

NoSize == <<-1, -1>>

\* The id egui_renderer.register_native_texture returns at startup: the
\* renderer's first user texture.
RegisteredTextureId == 0

(* ------------------------- theme switching ----------------------------- *)
\* egui::Style { visuals, ..Default::default() }: stroke is the bg_stroke
\* width of the widget visuals, interact the interact_size.x spacing.
BaseStyle(visuals) == [visuals |-> visuals, stroke |-> 1, interact |-> 40]

set_style_overrides(s) ==
    [s EXCEPT !.stroke = @ * 2, !.interact = (@ * 12) \div 10]

switch_to_dark_mode == set_style_overrides(BaseStyle("dark"))

switch_to_light_mode == set_style_overrides(BaseStyle("dark"))

\* match dark_light::detect() at startup
StartupStyle(mode) ==
    IF mode = "Light" THEN switch_to_light_mode ELSE switch_to_dark_mode

(* --------------------------- surface ------------------------------------ *)
\* reconfigure(width, height): the surface is configured with the new size,
\* which becomes the last known size.
gfx_resize(g, new_size) == [g EXCEPT !.size = new_size, !.config = new_size]

gfx_set_scale_factor(g, f) == [g EXCEPT !.scale_factor = f]

(* ------------------------- key combo popup ------------------------------ *)
\* gui::key_combo_popup_handle_event: an open popup may close on the event;
\* the set of possible popup states after the call.
key_combo_popup_handle_event(open) == IF open THEN BOOLEAN ELSE {FALSE}

\* gui::key_combo_popup_captures_event: an open popup may claim any event;
\* the set of possible answers.
key_combo_popup_captures_event(open) == IF open THEN BOOLEAN ELSE {FALSE}

(* ------------------------- event dispatch ------------------------------- *)
allow_egui_capture_always(kind) == TRUE

\* let allow_egui_capture = match &ev { ... }
allow_egui_capture(kind) == kind \notin {"KeyReleased", "ModifiersChanged"}

EguiOfferedAlways(captured) == TRUE

EguiOfferedNever(captured) == FALSE

\* if !event_has_been_captured { egui_winit_state.on_event(..) }
EguiOffered(captured) == ~captured

\* event_has_been_captured |= r.consumed && allow_egui_capture
EguiCaptures(consumed, allow) == consumed /\ allow

\* if !event_has_been_captured { app.handle_window_event(&event) }
AppOffered(captured) == ~captured

KeyKinds == {"KeyPressed", "KeyReleased", "ModifiersChanged"}

\* The `_` arm of match &event.
DefaultArmOps(e, captured) ==
    (IF AppOffered(captured) THEN <<"app.handle_window_event">> ELSE <<>>)
    \o (IF e.kind \in KeyKinds THEN <<"egui_ctx.request_repaint">> ELSE <<>>)

MatchOpsWithoutThemeArm(e, captured) ==
    IF e.kind = "Resized" THEN <<"gfx.resize">>
    ELSE IF e.kind = "ScaleFactorChanged"
         THEN <<"gfx.set_scale_factor", "gfx.resize">>
    ELSE DefaultArmOps(e, captured)

MatchOpsScaleWithoutResize(e, captured) ==
    IF e.kind = "Resized" THEN <<"gfx.resize">>
    ELSE IF e.kind = "ScaleFactorChanged" THEN <<"gfx.set_scale_factor">>
    ELSE IF e.kind = "ThemeChanged"
         THEN IF e.theme = "Light" THEN <<"switch_to_light_mode">>
              ELSE <<"switch_to_dark_mode">>
    ELSE DefaultArmOps(e, captured)

\* match &event { Resized(..) => .., ScaleFactorChanged {..} => ..,
\*               ThemeChanged(theme) => .., _ => .. }: the calls made, in order.
MatchOps(e, captured) ==
    IF e.kind = "Resized" THEN <<"gfx.resize">>
    ELSE IF e.kind = "ScaleFactorChanged"
         THEN <<"gfx.set_scale_factor", "gfx.resize">>
    ELSE IF e.kind = "ThemeChanged"
         THEN IF e.theme = "Light" THEN <<"switch_to_light_mode">>
              ELSE <<"switch_to_dark_mode">>
    ELSE DefaultArmOps(e, captured)

Count(seq, x) == Cardinality({i \in 1..Len(seq) : seq[i] = x})

Has(seq, x) == \E i \in 1..Len(seq) : seq[i] = x

IdleRecord ==
    [handler |-> "none", kind |-> "none", popup_captured |-> FALSE,
     egui_offered |-> FALSE, egui_consumed |-> FALSE, egui_captured |-> FALSE,
     event_has_been_captured |-> FALSE, now |-> 0, nft_before |-> 0,
     repaint_zero |-> FALSE, frame_duration |-> 0, outcome |-> "none",
     needs_save |-> FALSE, drew |-> FALSE, updated_id |-> -1]

\* The events of each kind, with the payload the closure reads.
NoPayload == [size |-> NoSize, scale |-> 0, theme |-> "none"]

WindowEvents(kind) ==
    IF kind = "Resized"
    THEN {[NoPayload EXCEPT !.size = s] : s \in Sizes}
    ELSE IF kind = "ScaleFactorChanged"
    THEN {[NoPayload EXCEPT !.size = s, !.scale = f] : s \in Sizes, f \in ScaleFactors}
    ELSE IF kind = "ThemeChanged"
    THEN {[NoPayload EXCEPT !.theme = t] : t \in Themes}
    ELSE {NoPayload}

\* A WindowEvent whose window_id is window.id().
HandleWindowEvent(e, open1, popup_captures, r_consumed, r_repaint) ==
    LET offered == EguiOffered(popup_captures)
        egui_cap == offered /\ EguiCaptures(r_consumed, allow_egui_capture(e.kind))
        captured == popup_captures \/ egui_cap
        arm == MatchOps(e, captured)
        scaled == IF Has(arm, "gfx.set_scale_factor")
                  THEN gfx_set_scale_factor(gfx, e.scale) ELSE gfx
    IN  /\ popup_open' = open1
        /\ gfx' = IF Has(arm, "gfx.resize") THEN gfx_resize(scaled, e.size)
                  ELSE scaled
        /\ style' = IF Has(arm, "switch_to_light_mode") THEN switch_to_light_mode
                    ELSE IF Has(arm, "switch_to_dark_mode") THEN switch_to_dark_mode
                    ELSE style
        /\ repaint_requested' =
              (\/ repaint_requested
               \/ offered /\ r_repaint
               \/ Has(arm, "egui_ctx.request_repaint"))
        /\ ops' = <<"key_combo_popup_handle_event", "key_combo_popup_captures_event">>
                  \o (IF offered THEN <<"egui.on_event">> ELSE <<>>)
                  \o (IF offered /\ r_repaint
                      THEN <<"egui_ctx.request_repaint">> ELSE <<>>)
                  \o arm
        /\ last' = [IdleRecord EXCEPT
                        !.handler = "WindowEvent", !.kind = e.kind,
                        !.popup_captured = popup_captures,
                        !.egui_offered = offered,
                        !.egui_consumed = offered /\ r_consumed,
                        !.egui_captured = egui_cap,
                        !.event_has_been_captured = captured]
        /\ lastReported' = IF e.kind \in {"Resized", "ScaleFactorChanged"}
                           THEN e.size ELSE lastReported
        /\ UNCHANGED <<clock, next_frame_time, control_flow, fps, prefs,
                       redraw_requested, puzzle_texture_id, acqLog>>

WindowEvent(env) ==
    /\ control_flow # "Exit"
    /\ \E kind \in env.kinds :
       \E payload \in WindowEvents(kind) :
       \E open1 \in key_combo_popup_handle_event(popup_open) :
       \E popup_captures \in key_combo_popup_captures_event(open1) :
       \E r_consumed \in BOOLEAN, r_repaint \in BOOLEAN :
          HandleWindowEvent([kind |-> kind, size |-> payload.size,
                             scale |-> payload.scale, theme |-> payload.theme],
                            open1, popup_captures, r_consumed, r_repaint)

\* Event::UserEvent(event) => app.handle_app_event(event, control_flow)
UserEvent ==
    /\ control_flow # "Exit"
    /\ \E exit \in BOOLEAN :
         control_flow' = (IF exit THEN "Exit" ELSE control_flow)
    /\ ops' = <<"app.handle_app_event">>
    /\ last' = [IdleRecord EXCEPT !.handler = "UserEvent"]
    /\ UNCHANGED <<clock, next_frame_time, popup_open, gfx, style, fps, prefs,
                   repaint_requested, redraw_requested, puzzle_texture_id,
                   lastReported, acqLog>>

\* Event::MainEventsCleared => window.request_redraw()
MainEventsCleared ==
    /\ control_flow # "Exit"
    /\ redraw_requested' = TRUE
    /\ ops' = <<"window.request_redraw">>
    /\ last' = [IdleRecord EXCEPT !.handler = "MainEventsCleared"]
    /\ UNCHANGED <<clock, next_frame_time, control_flow, popup_open, gfx, style,
                   fps, prefs, repaint_requested, puzzle_texture_id,
                   lastReported, acqLog>>

\* _ => (): events of other windows and every other Event variant.
IgnoredEvent ==
    /\ control_flow # "Exit"
    /\ ops' = <<>>
    /\ last' = [IdleRecord EXCEPT !.handler = "Ignored"]
    /\ UNCHANGED <<clock, next_frame_time, control_flow, popup_open, gfx, style,
                   fps, prefs, repaint_requested, redraw_requested,
                   puzzle_texture_id, lastReported, acqLog>>

\* Wall-clock time passes between two handler invocations.
Tick(env) ==
    /\ control_flow # "Exit"
    /\ clock < env.horizon
    /\ clock' = clock + 1
    /\ ops' = <<>>
    /\ last' = IdleRecord
    /\ UNCHANGED <<next_frame_time, control_flow, popup_open, gfx, style, fps,
                   prefs, repaint_requested, redraw_requested,
                   puzzle_texture_id, lastReported, acqLog>>

Max(a, b) == IF a >= b THEN a ELSE b

\* Wall-clock time passes once the clock is at the horizon: every stored
\* Instant moves one unit into the past instead.  An instant further back
\* than the pacing gate, the resynchronisation and the frame-rate window can
\* tell apart is kept at that distance.
TickShift(env) ==
    /\ env.shifting
    /\ control_flow # "Exit"
    /\ clock = env.horizon
    /\ next_frame_time' =
          Max(next_frame_time - 1, clock - (MaxFrameDuration + 1))
    /\ fps' = [fps EXCEPT
                  !.last_second = Max(@ - 1, clock - (OneSecond + OneSecond))]
    /\ ops' = <<>>
    /\ last' = IdleRecord
    /\ UNCHANGED <<clock, control_flow, popup_open, gfx, style, prefs,
                   repaint_requested, redraw_requested, puzzle_texture_id,
                   lastReported, acqLog>>

(* --------------------------- frame pacing ------------------------------- *)
PacingGateIgnoringRepaintHint(repaint_zero, nft, now) == nft <= now

PacingGateFlipped(repaint_zero, nft, now) == repaint_zero /\ nft >= now

\* if egui_output.repaint_after.is_zero() && next_frame_time <= now
PacingGate(repaint_zero, nft, now) == repaint_zero /\ nft <= now

AdvanceFrameTimeNoResync(nft, now, now2, frame_duration) == nft + frame_duration

\* next_frame_time += frame_duration;
\* if next_frame_time < Instant::now() { next_frame_time = now + frame_duration }
AdvanceFrameTime(nft, now, now2, frame_duration) ==
    IF nft + frame_duration < now2 THEN now + frame_duration
    ELSE nft + frame_duration

(* ------------------------ surface acquisition --------------------------- *)
AcquireErrorOpsResizeOnOutdated(outcome) ==
    IF outcome \in {"Outdated", "Lost"} THEN <<"gfx.resize">>
    ELSE IF outcome = "OutOfMemory" THEN <<"control_flow=Exit">>
    ELSE <<"log::warn">>

AcquireErrorOpsResizeOnOutOfMemory(outcome) ==
    IF outcome = "Outdated" THEN <<>>
    ELSE IF outcome \in {"Lost", "OutOfMemory"} THEN <<"gfx.resize">>
    ELSE <<"log::warn">>

AcquireErrorOpsExitOnOther(outcome) ==
    IF outcome = "Outdated" THEN <<>>
    ELSE IF outcome = "Lost" THEN <<"gfx.resize">>
    ELSE <<"control_flow=Exit">>

AcquireErrorOpsCountsDroppedFrame(outcome) ==
    IF outcome = "Outdated" THEN <<"update_framerate">>
    ELSE IF outcome = "Lost" THEN <<"gfx.resize", "update_framerate">>
    ELSE IF outcome = "OutOfMemory" THEN <<"control_flow=Exit">>
    ELSE <<"log::warn">>

\* Err(e) => { match e { Outdated => (), Lost => gfx.resize(gfx.size),
\*                       OutOfMemory => *control_flow = Exit, _ => log::warn!(..) }
\*             return; }
AcquireErrorOps(outcome) ==
    IF outcome = "Outdated" THEN <<>>
    ELSE IF outcome = "Lost" THEN <<"gfx.resize">>
    ELSE IF outcome = "OutOfMemory" THEN <<"control_flow=Exit">>
    ELSE <<"log::warn">>

\* Everything between a successful acquisition and the frame-rate update.
RenderOps ==
    <<"egui_ctx.tessellate", "create_command_encoder", "update_texture",
      "update_buffers", "render", "free_texture", "queue.submit", "present">>

\* frames_this_second += 1;
\* if (Instant::now() - last_second).as_secs() >= 1 { .. }
UpdateFramerate(f, now3) ==
    LET n == f.frames_this_second + 1
    IN  IF (now3 - f.last_second) \div OneSecond >= 1
        THEN [last_fps |-> n, frames_this_second |-> 0,
              last_second |-> f.last_second + OneSecond]
        ELSE [f EXCEPT !.frames_this_second = n]

\* The record of one acquisition attempt.  The log keeps the current run
\* of consecutive attempts as long as their outcomes follow Outdated, Lost,
\* Ok, and restarts otherwise.
Attempt(outcome, calls) ==
    [outcome |-> outcome, resizes |-> Count(calls, "gfx.resize"),
     presents |-> Count(calls, "present")]

Pattern == <<"Outdated", "Lost", "Ok">>

Logged(log, entry) ==
    IF Len(log) < 3 /\ entry.outcome = Pattern[Len(log) + 1]
    THEN Append(log, entry)
    ELSE IF entry.outcome = Pattern[1] THEN <<entry>> ELSE <<>>

RedrawHeadOpsUpdateAlways(needs_save, drew) ==
    <<"set_pixels_per_point", "take_egui_input", "egui_ctx.run", "gui::build",
      "handle_platform_output">>
    \o (IF needs_save THEN <<"prefs.save">> ELSE <<>>)
    \o <<"app.draw_puzzle", "update_egui_texture_from_wgpu_texture",
         "egui_ctx.request_repaint">>

RedrawHeadOpsUpdateBeforeBuild(needs_save, drew) ==
    <<"set_pixels_per_point", "take_egui_input", "app.draw_puzzle">>
    \o (IF drew THEN <<"update_egui_texture_from_wgpu_texture",
                       "egui_ctx.request_repaint">> ELSE <<>>)
    \o <<"egui_ctx.run", "gui::build", "handle_platform_output">>
    \o (IF needs_save THEN <<"prefs.save">> ELSE <<>>)

RedrawHeadOpsSaveAlways(needs_save, drew) ==
    <<"set_pixels_per_point", "take_egui_input", "egui_ctx.run", "gui::build",
      "handle_platform_output", "prefs.save", "app.draw_puzzle">>
    \o (IF drew THEN <<"update_egui_texture_from_wgpu_texture",
                       "egui_ctx.request_repaint">> ELSE <<>>)

\* The calls of a RedrawRequested iteration before the pacing gate, in
\* order: the egui frame, the preferences save and the puzzle texture.
RedrawHeadOps(needs_save, drew) ==
    <<"set_pixels_per_point", "take_egui_input", "egui_ctx.run", "gui::build",
      "handle_platform_output">>
    \o (IF needs_save THEN <<"prefs.save">> ELSE <<>>)
    \o <<"app.draw_puzzle">>
    \o (IF drew THEN <<"update_egui_texture_from_wgpu_texture",
                       "egui_ctx.request_repaint">> ELSE <<>>)

\* Event::RedrawRequested(window_id) if window_id == window.id().
\* popup1 and dirty are what gui::build leaves of the popup and of
\* prefs.needs_save, ui_zero whether the UI itself asks for a repaint now,
\* drew whether app.draw_puzzle returned a texture, fd the value of
\* frame_duration(), now2 and now3 the later readings of Instant::now().
HandleRedraw(popup1, ui_zero, dirty, drew, fd, lag1, lag2, outcome) ==
    LET now == clock
        now2 == now + lag1
        now3 == now2 + lag2
        repaint_zero == repaint_requested \/ ui_zero
        needs_save == prefs.needs_save \/ dirty
        gate == PacingGate(repaint_zero, next_frame_time, now)
        ok == gate /\ outcome = "Ok"
        head == RedrawHeadOps(needs_save, drew)
        frame == IF ~gate THEN <<>>
                 ELSE <<"app.frame", "get_current_texture">>
                      \o (IF ok THEN RenderOps \o <<"update_framerate">>
                          ELSE AcquireErrorOps(outcome))
    IN  /\ popup_open' = popup1
        /\ prefs' = [needs_save |-> needs_save /\ ~Has(head, "prefs.save")]
        /\ repaint_requested' = Has(head, "egui_ctx.request_repaint")
        /\ redraw_requested' = FALSE
        /\ next_frame_time' = IF gate
                              THEN AdvanceFrameTime(next_frame_time, now, now2, fd)
                              ELSE next_frame_time
        /\ ops' = head \o frame
        /\ gfx' = IF Has(frame, "gfx.resize") THEN gfx_resize(gfx, gfx.size) ELSE gfx
        /\ control_flow' = IF Has(frame, "control_flow=Exit") THEN "Exit"
                           ELSE control_flow
        /\ fps' = IF Has(frame, "update_framerate") THEN UpdateFramerate(fps, now3)
                  ELSE fps
        /\ clock' = now3
        /\ acqLog' = IF gate THEN Logged(acqLog, Attempt(outcome, frame)) ELSE acqLog
        /\ last' = [IdleRecord EXCEPT
                        !.handler = "RedrawRequested", !.now = now,
                        !.nft_before = next_frame_time,
                        !.repaint_zero = repaint_zero,
                        !.frame_duration = IF gate THEN fd ELSE 0,
                        !.outcome = IF gate THEN outcome ELSE "none",
                        !.needs_save = needs_save, !.drew = drew,
                        !.updated_id =
                            IF Has(head, "update_egui_texture_from_wgpu_texture")
                            THEN puzzle_texture_id ELSE -1]
        /\ UNCHANGED <<style, puzzle_texture_id, lastReported>>

RedrawRequested(env) ==
    /\ control_flow # "Exit"
    /\ redraw_requested
    /\ \E popup1 \in env.popups, ui_zero \in BOOLEAN, dirty \in env.dirty,
          drew \in BOOLEAN :
          IF ~PacingGate(repaint_requested \/ ui_zero, next_frame_time, clock)
          THEN HandleRedraw(popup1, ui_zero, dirty, drew, 0, 0, 0, "none")
          ELSE \E fd \in FrameDurations, outcome \in env.outcomes :
               \E lag1 \in {l \in env.lags : clock + l <= env.horizon} :
               \E lag2 \in IF outcome = "Ok"
                            THEN {l \in env.lags : clock + lag1 + l <= env.horizon}
                            ELSE {0} :
                  HandleRedraw(popup1, ui_zero, dirty, drew, fd, lag1, lag2, outcome)

(* ------------------------- specification -------------------------------- *)
\* The state after the code before event_loop.run: lines 125-162.
Init ==
    /\ clock = 0
    /\ next_frame_time = clock
    /\ control_flow = "Poll"
    /\ popup_open = FALSE
    /\ gfx = [size |-> <<1, 1>>, config |-> <<1, 1>>, scale_factor |-> 1]
    /\ \E mode \in DetectedModes : style = StartupStyle(mode)
    /\ fps = [last_fps |-> 0, frames_this_second |-> 0, last_second |-> 0]
    /\ prefs = [needs_save |-> FALSE]
    /\ repaint_requested = FALSE
    /\ redraw_requested = TRUE
    /\ puzzle_texture_id = RegisteredTextureId
    /\ last = IdleRecord
    /\ ops = <<>>
    /\ lastReported = NoSize
    /\ acqLog = <<>>

\* Event dispatch, with every kind of window event and the popup in use,
\* at one instant of the clock.
Next ==
    \/ WindowEvent(DispatchEnv)
    \/ UserEvent
    \/ MainEventsCleared
    \/ RedrawRequested(DispatchEnv)
    \/ IgnoredEvent

Spec == Init /\ [][Next]_vars

\* Frame pacing, with the clock running to MaxTime and handlers that take
\* time, the popup unused and window events without payload.
NextPacing ==
    \/ WindowEvent(PacingEnv)
    \/ UserEvent
    \/ MainEventsCleared
    \/ RedrawRequested(PacingEnv)
    \/ IgnoredEvent
    \/ Tick(PacingEnv)

SpecPacing == Init /\ [][NextPacing]_vars

\* The loop left running: control_flow is Poll, so the event loop keeps
\* delivering MainEventsCleared, the window system delivers every requested
\* redraw, and time passes.
NextLive ==
    \/ WindowEvent(LiveEnv)
    \/ MainEventsCleared
    \/ RedrawRequested(LiveEnv)
    \/ IgnoredEvent
    \/ Tick(LiveEnv)
    \/ TickShift(LiveEnv)

SpecLive ==
    /\ Init
    /\ [][NextLive]_vars
    /\ WF_vars(MainEventsCleared)
    /\ WF_vars(RedrawRequested(LiveEnv))
    /\ WF_vars(Tick(LiveEnv))
    /\ WF_vars(TickShift(LiveEnv))

(* ----------------------------- properties ------------------------------- *)
StructuralKinds == {"Resized", "ScaleFactorChanged", "ThemeChanged"}

SurfaceOps ==
    {"gfx.resize", "create_command_encoder", "update_texture", "update_buffers",
     "render", "free_texture", "queue.submit", "present"}

FrameOps == {"app.frame", "get_current_texture"} \cup SurfaceOps

HasAny(seq, S) == \E i \in 1..Len(seq) : seq[i] \in S

\* What follows the call x in seq (seq itself when x is not called).
After(seq, x) ==
    IF Has(seq, x)
    THEN LET i == CHOOSE j \in 1..Len(seq) : seq[j] = x
         IN  SubSeq(seq, i + 1, Len(seq))
    ELSE seq

\* C1: a KeyboardInput event whose state is Released is never recorded as
\* captured on account of egui, whatever on_event reports as consumed.
C1_KeyReleaseNotCapturedByEgui ==
    (last.handler = "WindowEvent" /\ last.kind = "KeyReleased")
        => ~last.egui_captured

\* C1 witness: egui was offered a key release and reported it consumed; the
\* popup did not capture it and the event is still not recorded as captured.
C1_Witness ==
    /\ last.handler = "WindowEvent"
    /\ last.kind = "KeyReleased"
    /\ last.egui_consumed
    /\ ~last.event_has_been_captured

\* C2: every KeyboardInput Released event of the window is delivered to
\* app.handle_window_event, whatever the popup and egui do.
C2_KeyReleaseReachesApp ==
    (last.handler = "WindowEvent" /\ last.kind = "KeyReleased")
        => Has(ops, "app.handle_window_event")

\* C3: an event is claimed by at most one consumer, in the order popup, egui,
\* application: egui is offered the event only if the popup did not capture
\* it, and the application receives it only if neither captured it.
C3_OneConsumerInOrder ==
    last.handler = "WindowEvent" =>
        /\ Has(ops, "egui.on_event") => ~last.popup_captured
        /\ ~(last.popup_captured /\ last.egui_captured)
        /\ Has(ops, "app.handle_window_event")
              => (~last.popup_captured /\ ~last.egui_captured)

\* C3 witness: the popup captured a key press, so neither egui nor the
\* application saw it.
C3_Witness ==
    /\ last.handler = "WindowEvent"
    /\ last.kind = "KeyPressed"
    /\ last.popup_captured
    /\ ~Has(ops, "egui.on_event")
    /\ ~Has(ops, "app.handle_window_event")

\* C4: Resized, ScaleFactorChanged and ThemeChanged events are never passed
\* to app.handle_window_event, captured or not, and are always handled by the
\* resize / scale-factor / theme-switch code.
C4_StructuralEventsBypassApp ==
    (last.handler = "WindowEvent" /\ last.kind \in StructuralKinds) =>
        /\ ~Has(ops, "app.handle_window_event")
        /\ last.kind = "Resized" => Has(ops, "gfx.resize")
        /\ last.kind = "ScaleFactorChanged"
              => (Has(ops, "gfx.set_scale_factor") /\ Has(ops, "gfx.resize"))
        /\ last.kind = "ThemeChanged"
              => HasAny(ops, {"switch_to_light_mode", "switch_to_dark_mode"})

\* C4 witness: a theme change that no consumer captured, which the
\* application would have received had it been any other kind of event.
C4_Witness ==
    /\ last.handler = "WindowEvent"
    /\ last.kind = "ThemeChanged"
    /\ ~last.event_has_been_captured
    /\ Has(ops, "egui.on_event")

\* C5: once a Resized or ScaleFactorChanged event has been processed, the
\* surface's configured dimensions (and the last known size) equal the size
\* the last such event reported, also after redraws whose acquisition is Lost
\* and whether or not the events were captured.
C5_SurfaceHasLastReportedSize ==
    lastReported # NoSize =>
        (gfx.config = lastReported /\ gfx.size = lastReported)

\* C5 witness: after a size other than the initial one was reported, a
\* redraw lost the surface and reconfigured it.
C5_Witness ==
    /\ lastReported \notin {NoSize, <<1, 1>>}
    /\ last.handler = "RedrawRequested"
    /\ last.outcome = "Lost"
    /\ Has(ops, "gfx.resize")

\* C6: a RedrawRequested iteration produces a frame only if repaint_after is
\* zero and now >= next_frame_time; every other iteration makes no frame
\* call and leaves next_frame_time unchanged.
C6_FrameOnlyWhenDue ==
    last.handler = "RedrawRequested" =>
        IF last.repaint_zero /\ last.nft_before <= last.now
        THEN Has(ops, "app.frame") /\ Has(ops, "get_current_texture")
        ELSE ~HasAny(ops, FrameOps) /\ next_frame_time = last.nft_before

\* C6 witness: the UI wanted a repaint but the frame was not yet due, so the
\* iteration was skipped.
C6_Witness ==
    /\ last.handler = "RedrawRequested"
    /\ last.repaint_zero
    /\ last.nft_before > last.now
    /\ ~HasAny(ops, FrameOps)

\* C7: an iteration produces at most one frame, and the produce step leaves
\* next_frame_time within one frame_duration of the iteration's now, also
\* after a stall longer than frame_duration.
C7_NoCatchUpBurst ==
    last.handler = "RedrawRequested" =>
        /\ Count(ops, "app.frame") <= 1
        /\ Count(ops, "present") <= 1
        /\ last.outcome # "none" =>
              /\ last.now <= next_frame_time
              /\ next_frame_time <= last.now + last.frame_duration

\* C7 witness: a frame produced after a stall of more than frame_duration.
C7_Witness ==
    /\ last.handler = "RedrawRequested"
    /\ last.outcome = "Ok"
    /\ last.now - last.nft_before > last.frame_duration
    /\ Has(ops, "present")

\* C8: next_frame_time never decreases, over every step of the loop.
C8_NextFrameTimeMonotonic ==
    [][next_frame_time' >= next_frame_time]_vars

\* C8 witness: an iteration that took the resynchronisation branch, with a
\* frame duration other than the one that would have kept the schedule.
C8_Witness ==
    /\ last.handler = "RedrawRequested"
    /\ last.outcome # "none"
    /\ last.nft_before + last.frame_duration < next_frame_time
    /\ next_frame_time = last.now + last.frame_duration

\* C9: three consecutive frame-producing iterations whose acquisitions end
\* Outdated, Lost, Ok make exactly one reconfigure, on Lost, and present
\* exactly one frame, on the third.
C9_OutdatedLostOk ==
    Len(acqLog) = 3 =>
        /\ [i \in 1..3 |-> acqLog[i].resizes] = <<0, 1, 0>>
        /\ [i \in 1..3 |-> acqLog[i].presents] = <<0, 0, 1>>

\* C9 witness: the three attempts have happened.
C9_Witness ==
    /\ Len(acqLog) = 3
    /\ [i \in 1..3 |-> acqLog[i].outcome] = Pattern
    /\ last.outcome = "Ok"

\* C10: when acquisition returns OutOfMemory, control_flow is Exit when the
\* iteration ends and no surface operation follows the acquisition.
C10_OutOfMemoryExits ==
    (last.handler = "RedrawRequested" /\ last.outcome = "OutOfMemory") =>
        /\ control_flow = "Exit"
        /\ ~HasAny(After(ops, "get_current_texture"), SurfaceOps)

\* C10 witness: an acquisition ran out of memory.
C10_Witness ==
    /\ last.handler = "RedrawRequested"
    /\ last.outcome = "OutOfMemory"
    /\ Has(ops, "get_current_texture")

\* C11: the content texture update and its repaint request are performed in
\* a RedrawRequested iteration only if app.draw_puzzle returned a new texture
\* in that iteration, and every update targets the texture id registered once
\* at startup, which no handler ever changes.
C11_TextureUpdateOnlyWhenDrawn ==
    /\ puzzle_texture_id = RegisteredTextureId
    /\ last.handler = "RedrawRequested" =>
        /\ Has(ops, "update_egui_texture_from_wgpu_texture") => last.drew
        /\ Has(ops, "egui_ctx.request_repaint") => last.drew
        /\ Count(ops, "update_egui_texture_from_wgpu_texture") <= 1
        /\ Has(ops, "update_egui_texture_from_wgpu_texture") =>
            last.updated_id = RegisteredTextureId
        /\ ~Has(ops, "update_egui_texture_from_wgpu_texture") =>
            last.updated_id = -1

\* A second update in a row (the request of the previous one is pending).
C11_Witness ==
    /\ last.handler = "RedrawRequested"
    /\ last.drew
    /\ last.repaint_zero
    /\ Has(ops, "update_egui_texture_from_wgpu_texture")
    /\ last.updated_id = RegisteredTextureId
    /\ repaint_requested

\* The position of the first x in seq, 0 when x is not in seq.
Index(seq, x) ==
    IF Has(seq, x) THEN CHOOSE i \in 1..Len(seq) :
                            /\ seq[i] = x
                            /\ \A j \in 1..(i - 1) : seq[j] # x
    ELSE 0

\* C12 as stated: within one RedrawRequested iteration the content texture
\* update happens before the UI layer's display-list build (gui::build in
\* egui_ctx.run) of that iteration.
C12_UpdateBeforeBuild ==
    (last.handler = "RedrawRequested"
     /\ Has(ops, "update_egui_texture_from_wgpu_texture")) =>
        Index(ops, "update_egui_texture_from_wgpu_texture")
            < Index(ops, "gui::build")

\* C12 amended: within one RedrawRequested iteration the content texture
\* update happens after the UI layer's display-list build of that iteration
\* and before that iteration's render pass, submit and present, so the frame
\* an iteration presents samples the texture updated in the same iteration.
C12_UpdateAfterBuildBeforeRender ==
    (last.handler = "RedrawRequested"
     /\ Has(ops, "update_egui_texture_from_wgpu_texture")) =>
        /\ Index(ops, "gui::build")
            < Index(ops, "update_egui_texture_from_wgpu_texture")
        /\ \A x \in {"render", "queue.submit", "present"} :
            Has(ops, x) =>
                Index(ops, "update_egui_texture_from_wgpu_texture")
                    < Index(ops, x)

C12_Witness ==
    /\ last.handler = "RedrawRequested"
    /\ last.drew
    /\ Has(ops, "update_egui_texture_from_wgpu_texture")
    /\ Has(ops, "gui::build")
    /\ Has(ops, "render")
    /\ Has(ops, "present")

\* C13: the frame-rate counter is reset once per elapsed second; after a
\* presented frame has reset the counter, the window boundary last_second is
\* less than one second behind that frame's `now`, so the following frames
\* that are less than one second apart do not reset it again.  (clock is the
\* Instant::now() the reset compared with last_second.)
C13_ResetCatchesUp ==
    (/\ last.handler = "RedrawRequested"
     /\ Has(ops, "update_framerate")
     /\ fps.frames_this_second = 0) =>
        clock - fps.last_second < OneSecond

\* C14: applying the light theme mode (here on a ThemeChanged(Light) event)
\* sets a light base visual profile, which differs from the style the dark
\* mode sets.
C14_LightModeSetsLightProfile ==
    (last.handler = "WindowEvent" /\ Has(ops, "switch_to_light_mode")) =>
        /\ style.visuals = "light"
        /\ style # switch_to_dark_mode

\* The base visual profile each theme mode stands for.
ModeVisuals(mode) == IF mode = "Light" THEN "light" ELSE "dark"

ThemeOp(mode) ==
    IF mode = "Light" THEN "switch_to_light_mode" ELSE "switch_to_dark_mode"

\* C15: after any sequence of theme applications the global style is the
\* base profile of the last applied mode with the style overrides (stroke
\* widths x2, interact width x1.2) applied exactly once.
C15_StyleIsLastModeWithOverridesOnce ==
    \A m \in Themes :
        (last.handler = "WindowEvent" /\ Has(ops, ThemeOp(m))) =>
            style = set_style_overrides(BaseStyle(ModeVisuals(m)))

\* C16: among the surface acquisition outcomes only OutOfMemory sets the
\* shutdown signal.  An iteration whose acquisition returned Outdated, Lost
\* or any other error leaves control_flow at Poll, presents no frame, and
\* leaves the loop able to request a redraw and so to acquire again.
C16_OnlyOutOfMemoryExits ==
    /\ (last.handler = "RedrawRequested"
        /\ last.outcome \in AcquireOutcomes \ {"Ok", "OutOfMemory"}) =>
            /\ control_flow = "Poll"
            /\ ~Has(ops, "control_flow=Exit")
            /\ ~Has(ops, "present")
            /\ ENABLED MainEventsCleared
    /\ (last.handler = "RedrawRequested" /\ control_flow = "Exit") =>
            last.outcome = "OutOfMemory"

\* C16 witness: an acquisition that failed with Lost right after one that
\* failed with Outdated, the loop still polling.
C16_Witness ==
    /\ last.handler = "RedrawRequested"
    /\ last.outcome = "Lost"
    /\ Len(acqLog) = 2
    /\ acqLog[1].outcome = "Outdated"
    /\ control_flow = "Poll"

\* C17: every RedrawRequested iteration polls needs_save once and calls
\* prefs.save exactly when the flag is set (once, and never otherwise),
\* whether or not the pacing gate lets a frame through and whatever the
\* surface acquisition returns.
C17_SaveExactlyWhenNeeded ==
    last.handler = "RedrawRequested" =>
        /\ Count(ops, "prefs.save") = (IF last.needs_save THEN 1 ELSE 0)
        /\ Has(ops, "prefs.save") =>
            Index(ops, "prefs.save") < Index(ops, "app.draw_puzzle")
        /\ \A x \in FrameOps :
            Has(ops, x) /\ Has(ops, "prefs.save") =>
                Index(ops, "prefs.save") < Index(ops, x)

\* C17 witness: preferences saved in an iteration the pacing gate skipped.
C17_Witness ==
    /\ last.handler = "RedrawRequested"
    /\ last.needs_save
    /\ Has(ops, "prefs.save")
    /\ ~Has(ops, "app.frame")
    /\ ~prefs.needs_save

\* The kinds C18 says never reach the UI layer's event handler.
BypassKinds == {"KeyReleased", "ModifiersChanged"} \cup StructuralKinds

\* C18 as stated: egui's on_event is not invoked for key-release events,
\* ModifiersChanged events, or Resized / ScaleFactorChanged / ThemeChanged
\* events.
C18_BypassKindsSkipEgui ==
    (last.handler = "WindowEvent" /\ last.kind \in BypassKinds) =>
        ~Has(ops, "egui.on_event")

\* C18 amended: egui's on_event is invoked exactly once for every window
\* event the key-combo popup did not capture, of these kinds too, and not at
\* all for one the popup captured; for key-release and ModifiersChanged
\* events what on_event reports as consumed never marks the event captured.
C18_EguiOfferedUnlessPopupCaptured ==
    (last.handler = "WindowEvent" /\ last.kind \in BypassKinds) =>
        /\ Count(ops, "egui.on_event") = (IF last.popup_captured THEN 0 ELSE 1)
        /\ last.egui_offered = ~last.popup_captured
        /\ last.kind \in {"KeyReleased", "ModifiersChanged"} =>
            ~last.egui_captured

\* C18 witness: egui consumed a key release the popup had left alone, and
\* the release still reached the application.
C18_Witness ==
    /\ last.handler = "WindowEvent"
    /\ last.kind = "KeyReleased"
    /\ ~last.popup_captured
    /\ Has(ops, "egui.on_event")
    /\ last.egui_consumed
    /\ Has(ops, "app.handle_window_event")

\* C19: a failed surface acquisition still consumes the frame slot.  In a
\* RedrawRequested iteration that passes the pacing gate and whose
\* acquisition fails, next_frame_time has been advanced and app.frame has run
\* before the acquisition, while frames_this_second, last_second and last_fps
\* are left as they were; the frame counter changes only in an iteration
\* that presents.
C19_FailedAcquisitionConsumesSlot ==
    [][(redraw_requested /\ ~redraw_requested'
        /\ last'.handler = "RedrawRequested") =>
          /\ last'.outcome \in AcquireOutcomes \ {"Ok"} =>
                /\ fps' = fps
                /\ next_frame_time' > next_frame_time
                /\ Has(ops', "app.frame")
                /\ Index(ops', "app.frame") < Index(ops', "get_current_texture")
                /\ ~Has(ops', "update_framerate")
          /\ fps' # fps => Has(ops', "present")]_vars

\* C19 witness: an acquisition failed after earlier frames had been counted
\* and the slot of the failed frame is spent.
C19_Witness ==
    /\ last.handler = "RedrawRequested"
    /\ last.outcome \in {"Outdated", "Lost", "Timeout"}
    /\ Has(ops, "app.frame")
    /\ next_frame_time > last.nft_before
    /\ fps.frames_this_second > 0
    /\ ~Has(ops, "present")

\* C20: new content is eventually presented.  Whenever app.draw_puzzle
\* returns a new texture in some RedrawRequested iteration (and a repaint is
\* requested), that iteration or a later one presents a frame, given that
\* redraws keep being requested and delivered, time keeps advancing and
\* acquisition succeeds.
C20_NewContentEventuallyPresented ==
    (last.handler = "RedrawRequested" /\ last.drew
     /\ Has(ops, "egui_ctx.request_repaint"))
        ~> (last.handler = "RedrawRequested" /\ Has(ops, "present"))

====
